---- MODULE Spec2Model ----
(***************************************************************************)
(* State machines of the two client components of task-Ezy-app:            *)
(*   - TasksComponent (src/src/app/_components/TasksList.tsx): list, sort, *)
(*     multi-select, single and batch delete, toast;                       *)
(*   - Dashboard (src/unnamed/part_000): creation form, toast.             *)
(* One action is one run of an event handler or of the continuation of an  *)
(* async handler after an await, followed by the React render it causes    *)
(* and the effects of that render.  The task API is the environment: every *)
(* request in flight is answered, in any order, by success or by failure.  *)
(***************************************************************************)
EXTENDS Integers, Sequences, FiniteSets, TLC

\* ------------------------------------------------------------------ bounds
MaxTasks == 3        \* tasks the server holds at most (ids 1..MaxTasks)
MaxGets == 1         \* GET /api/tasks requests in flight at most
MaxPending == 1      \* single-task DELETE requests in flight at most
MaxRuns == 1         \* deleteSelectedTasks runs in flight at most
MaxPosts == 1        \* POST /api/tasks requests in flight at most

TaskIds == 1..MaxTasks

\* ------------------------------------------------------------- task records
\* A date string (ISO, as the API serialises it) is kept as <<year, month, day>>;
\* the absent due date (null) is the empty tuple.
NullDate == <<>>

\* A title is the sequence of its characters' collation weights.
TitleOf(id) ==
    CASE id = 1 -> <<2>>
      [] id = 2 -> <<1>>
      [] id = 3 -> <<1, 2>>
      [] OTHER  -> <<2>>

DueDateOf(id) ==
    CASE id = 1 -> NullDate
      [] id = 2 -> <<2024, 3, 1>>
      [] id = 3 -> <<2024, 2, 15>>
      [] id = 4 -> NullDate
      [] OTHER  -> <<2024, 3, 1>>

PriorityOf(id) ==
    CASE id = 1 -> "Low"
      [] id = 2 -> "High"
      [] id = 3 -> "null"
      [] OTHER  -> "Medium"

CreatedAtOf(id) ==
    CASE id = 1 -> <<2024, 1, 1>>
      [] id = 2 -> <<2024, 1, 3>>
      [] id = 3 -> <<2024, 1, 2>>
      [] OTHER  -> <<2024, 1, 3>>

UpdatedAtOf(id) ==
    CASE id = 1 -> <<2024, 2, 2>>
      [] id = 2 -> <<2024, 2, 1>>
      [] id = 3 -> <<2024, 2, 2>>
      [] OTHER  -> <<2024, 1, 31>>

Task(id) ==
    [id |-> id, title |-> TitleOf(id), dueDate |-> DueDateOf(id),
     priority |-> PriorityOf(id), createdAt |-> CreatedAtOf(id),
     updatedAt |-> UpdatedAtOf(id)]

SortOption == {"dueDate", "priority", "createdAt", "updatedAt", "title"}
NoSort == "null"

\* ------------------------------------------------------------------ toasts
Toast(message, type) == [message |-> message, type |-> type]
NoToast == [message |-> <<>>, type |-> "null"]

\* ---------------------------------------------------------------- requests
Req(method, id) == [method |-> method, id |-> id]
GetTasks == Req("GET", 0)

NoRun == [ids |-> <<>>, sent |-> <<>>, successCount |-> 0, errorCount |-> 0]

Last(op, arg, reqs, toasts, run) ==
    [op |-> op, arg |-> arg, reqs |-> reqs, toasts |-> toasts, run |-> run]

\* ---------------------------------------------------------------- sequences
Range(s) == {s[i] : i \in 1..Len(s)}

Perms(S) ==
    {s \in [1..Cardinality(S) -> S] : \A i, j \in 1..Cardinality(S) : s[i] = s[j] => i = j}

\* GET /api/tasks answers with the collection in an order of the API's choosing.
ApiOrders(S) == Perms(S)

Includes(s, x) == \E i \in 1..Len(s) : s[i] = x

Filter(s, x) == SelectSeq(s, LAMBDA y : y # x)

Count(s, x) == Cardinality({i \in 1..Len(s) : s[i] = x})

\* ------------------------------------------------------------------- state
VARIABLES
    server,             \* ids of the tasks the API holds
    mounted,            \* the mount effects have run
    tasks,              \* TasksComponent: displayed list (ids of the task records)
    viewMode,
    selectedTasks,
    isDeleteModalOpen,
    tasksToDelete,
    toast,
    timers,             \* the toast effect's armed timers: the seconds each has left
    toastAge,           \* seconds the displayed toast has been up
    currentSort,
    originalOrder,
    received,           \* <<data>> of the last successful GET, <<>> before the first
    getsInFlight,       \* fetchTasks calls awaiting their response
    pendingDeletes,     \* handleDeleteTask calls awaiting their response, per id
    runs,               \* deleteSelectedTasks calls awaiting a response
    last,               \* what the last step did: handler, requests issued, toasts emitted
    taskTitle,          \* Dashboard: the six form fields
    taskDescription,
    dueDate,
    priority,
    status,
    tags,
    dMounted,           \* Dashboard: the mount effect has run
    dTasks,             \* Dashboard: tasks (sidebar list)
    dToast,             \* Dashboard: toast
    dTimers,            \* Dashboard: the toast effect's armed timers
    dToastAge,          \* Dashboard: seconds the displayed toast has been up
    dGets,              \* Dashboard: fetchTasks calls awaiting their response
    postsInFlight       \* Dashboard: handleSubmit calls awaiting their response

listVars ==
    <<mounted, tasks, viewMode, selectedTasks, isDeleteModalOpen, tasksToDelete,
      toast, timers, toastAge, currentSort, originalOrder, received, getsInFlight,
      pendingDeletes, runs>>

formVars == <<taskTitle, taskDescription, dueDate, priority, status, tags>>

dashVars == <<formVars, dMounted, dTasks, dToast, dTimers, dToastAge, dGets, postsInFlight>>

vars == <<server, listVars, dashVars, last>>

\* ------------------------------------------------------------------ sorting
\* new Date(s).getTime(): a number that grows with the calendar date.
GetTime(d) == (d[1] * 12 + (d[2] - 1)) * 31 + (d[3] - 1)

\* priorityOrder[p] || 0
PriorityOrder(p) ==
    CASE p = "High"   -> 3
      [] p = "Medium" -> 2
      [] p = "Low"    -> 1
      [] OTHER        -> 0

\* a.localeCompare(b): negative, zero or positive by collation order.
RECURSIVE LocaleCompare(_, _)
LocaleCompare(a, b) ==
    IF a = <<>> /\ b = <<>> THEN 0
    ELSE IF a = <<>> THEN -1
    ELSE IF b = <<>> THEN 1
    ELSE IF Head(a) < Head(b) THEN -1
    ELSE IF Head(a) > Head(b) THEN 1
    ELSE LocaleCompare(Tail(a), Tail(b))

\* Mutant: dates compared earliest first.
CompareDueDateAscending(a, b) ==
    IF a.dueDate = NullDate /\ b.dueDate = NullDate THEN 0
    ELSE IF a.dueDate = NullDate THEN 1
    ELSE IF b.dueDate = NullDate THEN -1
    ELSE GetTime(a.dueDate) - GetTime(b.dueDate)

CompareDueDate(a, b) ==
    IF a.dueDate = NullDate /\ b.dueDate = NullDate THEN 0
    ELSE IF a.dueDate = NullDate THEN 1
    ELSE IF b.dueDate = NullDate THEN -1
    ELSE GetTime(b.dueDate) - GetTime(a.dueDate)

\* The comparator sortTasks hands to Array.prototype.sort.
Compare(option, a, b) ==
    CASE option = "dueDate"   -> CompareDueDate(a, b)
      [] option = "priority"  -> PriorityOrder(b.priority) - PriorityOrder(a.priority)
      [] option = "createdAt" -> GetTime(b.createdAt) - GetTime(a.createdAt)
      [] option = "updatedAt" -> GetTime(b.updatedAt) - GetTime(a.updatedAt)
      [] option = "title"     -> LocaleCompare(a.title, b.title)
      [] OTHER                -> 0

\* Array.prototype.sort is stable: x goes after every element that does not
\* sort after it.
RECURSIVE InsertSorted(_, _, _)
InsertSorted(option, x, s) ==
    IF s = <<>> THEN <<x>>
    ELSE IF Compare(option, Task(Head(s)), Task(x)) <= 0
         THEN <<Head(s)>> \o InsertSorted(option, x, Tail(s))
         ELSE <<x>> \o s

RECURSIVE SortFrom(_, _, _)
SortFrom(option, done, rest) ==
    IF rest = <<>> THEN done
    ELSE SortFrom(option, InsertSorted(option, Head(rest), done), Tail(rest))

\* Mutant: the due-date sort leaves out the tasks that have no due date.
SortTasksDatedOnly(option, ts) ==
    SortFrom(option, <<>>,
             IF option = "dueDate"
             THEN SelectSeq(ts, LAMBDA id : Task(id).dueDate # NullDate)
             ELSE ts)

\* sortTasks(option): the value it hands to setTasks, from the tasks of its render.
SortTasks(option, ts) == SortFrom(option, <<>>, ts)

\* Mutant: with no sort active the effect leaves the displayed order as it is.
SortEffectKeepsOrder(cs, ts, oo) == IF cs # NoSort THEN SortTasks(cs, ts) ELSE ts

\* The effect on [currentSort, originalOrder]: the value of tasks it sets, run
\* in a render whose state is (cs, ts, oo).
SortEffect(cs, ts, oo) == IF cs # NoSort THEN SortTasks(cs, ts) ELSE oo

\* --------------------------------------------------------------- React state
\* setToast calls of one synchronous block are batched: the last one is rendered.
SetToasts(cur, calls) == IF calls = <<>> THEN cur ELSE calls[Len(calls)]

RemoveAt(s, i) == SubSeq(s, 1, i - 1) \o SubSeq(s, i + 1, Len(s))

\* The delay of the toast effect's setTimeout, in seconds (3000 ms).
ToastDelay == 3

\* Mutant: the effect returns no cleanup, an armed timer is never cancelled.
ToastEffectWithoutCleanup(armed, t) ==
    IF t # NoToast THEN Append(armed, ToastDelay) ELSE armed

\* The effect on [toast], run by a render whose toast is the new value t: the
\* cleanup of the effect's last run (clearTimeout), then, if t is a toast, one
\* setTimeout of ToastDelay.  The value is the timers armed afterwards.
ToastEffect(armed, t) == IF t # NoToast THEN <<ToastDelay>> ELSE <<>>

\* The timers after a block that made these setToast calls: every call hands
\* setToast a new object, so the render that follows runs the effect; with no
\* call there is no new toast value and the effect does not run.
ToastTimers(armed, cur, calls) ==
    IF calls = <<>> THEN armed ELSE ToastEffect(armed, SetToasts(cur, calls))

\* The age of the displayed toast after such a block.
AgeAfter(age, calls) == IF calls = <<>> THEN age ELSE 0

\* The seconds till the next armed timer is due.
Due(armed) == CHOOSE d \in Range(armed) : \A e \in Range(armed) : d <= e

\* The timers left when d seconds have passed and the timer then due has run.
AfterDue(armed) ==
    LET d == Due(armed)
        i == CHOOSE i \in 1..Len(armed) : armed[i] = d
        rest == RemoveAt(armed, i)
    IN  [k \in 1..Len(rest) |-> rest[k] - d]

\* ------------------------------------------------------------ TasksComponent
\* The delete modal is a fixed overlay over the whole viewport (inset-0, z-50):
\* while it is rendered the page under it takes no click.
PageTakesClicks == mounted /\ ~isDeleteModalOpen

DashIdle ==
    /\ dMounted = FALSE
    /\ taskTitle = <<>>
    /\ taskDescription = <<>>
    /\ dueDate = <<>>
    /\ priority = ""
    /\ status = "Not Started"
    /\ tags = <<>>
    /\ dTasks = <<>>
    /\ dToast = NoToast
    /\ dTimers = <<>>
    /\ dToastAge = 0
    /\ dGets = 0
    /\ postsInFlight = 0

ListInit ==
    /\ server = TaskIds
    /\ mounted = FALSE
    /\ tasks \in ApiOrders(server)        \* initialTasks
    /\ viewMode = "list"
    /\ selectedTasks = <<>>
    /\ isDeleteModalOpen = FALSE
    /\ tasksToDelete = <<>>
    /\ toast = NoToast
    /\ timers = <<>>
    /\ toastAge = 0
    /\ currentSort = NoSort
    /\ originalOrder = <<>>
    /\ received = <<>>
    /\ getsInFlight = 0
    /\ pendingDeletes = <<>>
    /\ runs = <<>>
    /\ last = Last("init", 0, <<>>, <<>>, NoRun)
    /\ DashIdle

\* The two mount effects: fetchTasks(), and the sort effect of the first render.
Mount ==
    /\ ~mounted
    /\ mounted' = TRUE
    /\ getsInFlight' = getsInFlight + 1
    /\ tasks' = SortEffect(currentSort, tasks, originalOrder)
    /\ last' = Last("mount", 0, <<GetTasks>>, <<>>, NoRun)
    /\ UNCHANGED <<server, viewMode, selectedTasks, isDeleteModalOpen, tasksToDelete,
                   toast, currentSort, originalOrder, received, pendingDeletes, runs,
                   dashVars,
                   timers, toastAge>>

\* fetchTasks after a successful response: setTasks(data); setOriginalOrder(data);
\* the render then runs the sort effect (originalOrder is a new array).
FetchTasksOk ==
    /\ getsInFlight > 0
    /\ \E data \in ApiOrders(server) :
        /\ originalOrder' = data
        /\ received' = <<data>>
        /\ tasks' = SortEffect(currentSort, data, data)
    /\ getsInFlight' = getsInFlight - 1
    /\ last' = Last("fetchTasksOk", 0, <<>>, <<>>, NoRun)
    /\ UNCHANGED <<server, mounted, viewMode, selectedTasks, isDeleteModalOpen,
                   tasksToDelete, toast, currentSort, pendingDeletes, runs, dashVars,
                   timers, toastAge>>

\* Mutant: the catch block reports the failure as a success.
FetchFailedAsSuccess == Toast(<<"Failed to fetch tasks">>, "success")

\* showToast("Failed to fetch tasks", "error")
FetchFailedToast == Toast(<<"Failed to fetch tasks">>, "error")

\* fetchTasks after a transport error or a non-ok status.
FetchTasksFail ==
    /\ getsInFlight > 0
    /\ getsInFlight' = getsInFlight - 1
    /\ toast' = SetToasts(toast, <<FetchFailedToast>>)
    /\ timers' = ToastTimers(timers, toast, <<FetchFailedToast>>)
    /\ toastAge' = AgeAfter(toastAge, <<FetchFailedToast>>)
    /\ last' = Last("fetchTasksFail", 0, <<>>, <<FetchFailedToast>>, NoRun)
    /\ UNCHANGED <<server, mounted, tasks, viewMode, selectedTasks, isDeleteModalOpen,
                   tasksToDelete, currentSort, originalOrder, received, pendingDeletes,
                   runs, dashVars>>

ToggleViewMode ==
    /\ PageTakesClicks
    /\ viewMode' = IF viewMode = "grid" THEN "list" ELSE "grid"
    /\ last' = Last("toggleViewMode", 0, <<>>, <<>>, NoRun)
    /\ UNCHANGED <<server, mounted, tasks, selectedTasks, isDeleteModalOpen,
                   tasksToDelete, toast, currentSort, originalOrder, received,
                   getsInFlight, pendingDeletes, runs, dashVars,
                   timers, toastAge>>

\* The checkbox of a displayed task.
ToggleTaskSelection(taskId) ==
    /\ PageTakesClicks
    /\ taskId \in Range(tasks)
    /\ selectedTasks' = IF Includes(selectedTasks, taskId)
                        THEN Filter(selectedTasks, taskId)
                        ELSE Append(selectedTasks, taskId)
    /\ last' = Last("toggleTaskSelection", 0, <<>>, <<>>, NoRun)
    /\ UNCHANGED <<server, mounted, tasks, viewMode, isDeleteModalOpen, tasksToDelete,
                   toast, currentSort, originalOrder, received, getsInFlight,
                   pendingDeletes, runs, dashVars,
                   timers, toastAge>>

\* The selection bar is rendered while selectedTasks.length > 0.
SelectAllTasks ==
    /\ PageTakesClicks
    /\ selectedTasks # <<>>
    /\ selectedTasks' = tasks
    /\ last' = Last("selectAllTasks", 0, <<>>, <<>>, NoRun)
    /\ UNCHANGED <<server, mounted, tasks, viewMode, isDeleteModalOpen, tasksToDelete,
                   toast, currentSort, originalOrder, received, getsInFlight,
                   pendingDeletes, runs, dashVars,
                   timers, toastAge>>

CancelSelection ==
    /\ PageTakesClicks
    /\ selectedTasks # <<>>
    /\ selectedTasks' = <<>>
    /\ last' = Last("cancelSelection", 0, <<>>, <<>>, NoRun)
    /\ UNCHANGED <<server, mounted, tasks, viewMode, isDeleteModalOpen, tasksToDelete,
                   toast, currentSort, originalOrder, received, getsInFlight,
                   pendingDeletes, runs, dashVars,
                   timers, toastAge>>

OpenDeleteModal ==
    /\ PageTakesClicks
    /\ selectedTasks # <<>>
    /\ tasksToDelete' = selectedTasks
    /\ isDeleteModalOpen' = TRUE
    /\ last' = Last("openDeleteModal", 0, <<>>, <<>>, NoRun)
    /\ UNCHANGED <<server, mounted, tasks, viewMode, selectedTasks, toast, currentSort,
                   originalOrder, received, getsInFlight, pendingDeletes, runs, dashVars,
                   timers, toastAge>>

\* The modal's X and Cancel buttons.
CloseDeleteModal ==
    /\ isDeleteModalOpen
    /\ isDeleteModalOpen' = FALSE
    /\ tasksToDelete' = <<>>
    /\ last' = Last("closeDeleteModal", 0, <<>>, <<>>, NoRun)
    /\ UNCHANGED <<server, mounted, tasks, viewMode, selectedTasks, toast, currentSort,
                   originalOrder, received, getsInFlight, pendingDeletes, runs, dashVars,
                   timers, toastAge>>

\* A sort chip: the click, then the sort effect of the render (currentSort changed).
HandleSortClick(option) ==
    /\ PageTakesClicks
    /\ currentSort' = IF currentSort = option THEN NoSort ELSE option
    /\ tasks' = SortEffect(currentSort', tasks, originalOrder)
    /\ last' = Last("handleSortClick", option, <<>>, <<>>, NoRun)
    /\ UNCHANGED <<server, mounted, viewMode, selectedTasks, isDeleteModalOpen,
                   tasksToDelete, toast, originalOrder, received, getsInFlight,
                   pendingDeletes, runs, dashVars,
                   timers, toastAge>>

\* ------------------------------------------------------------- single delete
\* handleDeleteTask(taskId), up to its await: the trash button of a displayed task.
HandleDeleteTask(taskId) ==
    /\ PageTakesClicks
    /\ taskId \in Range(tasks)
    /\ Len(pendingDeletes) < MaxPending
    /\ pendingDeletes' = Append(pendingDeletes, taskId)
    /\ last' = Last("handleDeleteTask", taskId, <<Req("DELETE", taskId)>>, <<>>, NoRun)
    /\ UNCHANGED <<server, mounted, tasks, viewMode, selectedTasks, isDeleteModalOpen,
                   tasksToDelete, toast, currentSort, originalOrder, received,
                   getsInFlight, runs, dashVars,
                   timers, toastAge>>

TaskDeletedToast == Toast(<<"Task deleted successfully">>, "success")

DeleteFailedToast == Toast(<<"Failed to delete task">>, "error")

\* Mutant: fetchTasks() moved after the try/catch.
DeleteTaskRefetchAlways(ok) == <<GetTasks>>

\* The requests handleDeleteTask issues once its DELETE has been answered.
DeleteTaskRefetch(ok) == IF ok THEN <<GetTasks>> ELSE <<>>

\* handleDeleteTask after its await: response.ok, or the catch block.
HandleDeleteTaskDone(i, ok) ==
    /\ i \in 1..Len(pendingDeletes)
    /\ getsInFlight + Len(DeleteTaskRefetch(ok)) <= MaxGets
    /\ pendingDeletes' = RemoveAt(pendingDeletes, i)
    /\ server' = IF ok THEN server \ {pendingDeletes[i]} ELSE server
    /\ getsInFlight' = getsInFlight + Len(DeleteTaskRefetch(ok))
    /\ LET calls == IF ok THEN <<TaskDeletedToast>> ELSE <<DeleteFailedToast>>
       IN  /\ toast' = SetToasts(toast, calls)
           /\ timers' = ToastTimers(timers, toast, calls)
           /\ toastAge' = AgeAfter(toastAge, calls)
           /\ last' = Last(IF ok THEN "handleDeleteTaskOk" ELSE "handleDeleteTaskFail",
                           pendingDeletes[i], DeleteTaskRefetch(ok), calls, NoRun)
    /\ UNCHANGED <<mounted, tasks, viewMode, selectedTasks, isDeleteModalOpen,
                   tasksToDelete, currentSort, originalOrder, received, runs, dashVars>>

\* -------------------------------------------------------------- batch delete
\* A run of deleteSelectedTasks: the tasksToDelete of its render, the ids whose
\* DELETE it has issued so far (the last one is awaited), and its two counters.
Run(ids, sent, successCount, errorCount) ==
    [ids |-> ids, sent |-> sent, successCount |-> successCount, errorCount |-> errorCount]

\* The showToast calls after the loop.
BatchToasts(successCount, errorCount) ==
    (IF successCount > 0
     THEN <<Toast(<<"Successfully deleted ", successCount, " task(s)">>, "success")>>
     ELSE <<>>)
    \o
    (IF errorCount > 0
     THEN <<Toast(<<"Failed to delete ", errorCount, " task(s)">>, "error")>>
     ELSE <<>>)

\* Mutant: the loop stops at the first failed request.
LoopStopsOnFailure(run, ok) == ok /\ Len(run.sent) < Len(run.ids)

\* Whether the for loop goes on to its next id after an answer.
LoopContinues(run, ok) == Len(run.sent) < Len(run.ids)

\* Mutant: the re-fetch is skipped when nothing was deleted.
BatchRefetchIfDeleted(successCount, errorCount) ==
    IF successCount > 0 THEN <<GetTasks>> ELSE <<>>

\* The requests deleteSelectedTasks issues after its loop: fetchTasks(), whatever
\* the counters.
BatchRefetch(successCount, errorCount) == <<GetTasks>>

\* The selection deleteSelectedTasks leaves.
BatchSelection(sel) == <<>>

\* The modal's Delete button: deleteSelectedTasks up to its first await.
DeleteSelectedTasks ==
    /\ isDeleteModalOpen
    /\ tasksToDelete # <<>>
    /\ Len(runs) < MaxRuns
    /\ runs' = Append(runs, Run(tasksToDelete, <<tasksToDelete[1]>>, 0, 0))
    /\ last' = Last("deleteSelectedTasks", 0, <<Req("DELETE", tasksToDelete[1])>>, <<>>,
                    NoRun)
    /\ UNCHANGED <<server, mounted, tasks, viewMode, selectedTasks, isDeleteModalOpen,
                   tasksToDelete, toast, currentSort, originalOrder, received,
                   getsInFlight, pendingDeletes, dashVars,
                   timers, toastAge>>

\* deleteSelectedTasks after an await inside the loop, the loop going on.
DeleteSelectedTasksNext(r, ok) ==
    /\ r \in 1..Len(runs)
    /\ LET run == runs[r]
           taskId == run.sent[Len(run.sent)]
           next == run.ids[Len(run.sent) + 1]
       IN  /\ LoopContinues(run, ok)
           /\ server' = IF ok THEN server \ {taskId} ELSE server
           /\ runs' = [runs EXCEPT ![r] =
                         Run(run.ids, Append(run.sent, next),
                             run.successCount + (IF ok THEN 1 ELSE 0),
                             run.errorCount + (IF ok THEN 0 ELSE 1))]
           /\ last' = Last("deleteSelectedTasksNext", taskId, <<Req("DELETE", next)>>,
                           <<>>, NoRun)
    /\ UNCHANGED <<mounted, tasks, viewMode, selectedTasks, isDeleteModalOpen,
                   tasksToDelete, toast, currentSort, originalOrder, received,
                   getsInFlight, pendingDeletes, dashVars,
                   timers, toastAge>>

\* deleteSelectedTasks after the last await: the toasts, fetchTasks(),
\* setSelectedTasks([]), closeDeleteModal().
DeleteSelectedTasksDone(r, ok) ==
    /\ r \in 1..Len(runs)
    /\ getsInFlight + 1 <= MaxGets
    /\ LET run == runs[r]
           taskId == run.sent[Len(run.sent)]
           successCount == run.successCount + (IF ok THEN 1 ELSE 0)
           errorCount == run.errorCount + (IF ok THEN 0 ELSE 1)
           calls == BatchToasts(successCount, errorCount)
       IN  /\ ~LoopContinues(run, ok)
           /\ server' = IF ok THEN server \ {taskId} ELSE server
           /\ runs' = RemoveAt(runs, r)
           /\ toast' = SetToasts(toast, calls)
           /\ timers' = ToastTimers(timers, toast, calls)
           /\ toastAge' = AgeAfter(toastAge, calls)
           /\ getsInFlight' = getsInFlight + Len(BatchRefetch(successCount, errorCount))
           /\ selectedTasks' = BatchSelection(selectedTasks)
           /\ isDeleteModalOpen' = FALSE
           /\ tasksToDelete' = <<>>
           /\ last' = Last("deleteSelectedTasksDone", taskId,
                           BatchRefetch(successCount, errorCount), calls,
                           Run(run.ids, run.sent, successCount, errorCount))
    /\ UNCHANGED <<mounted, tasks, viewMode, currentSort, originalOrder, received,
                   pendingDeletes, dashVars>>

\* The toast effect's timer: setToast(null) when the time the next armed timer
\* has left has passed, then the effect of that render.
ToastExpire ==
    /\ timers # <<>>
    /\ toast' = NoToast
    /\ timers' = ToastEffect(AfterDue(timers), NoToast)
    /\ toastAge' = 0
    /\ last' = Last("toastExpire", 0, <<>>, <<>>, NoRun)
    /\ UNCHANGED <<server, mounted, tasks, viewMode, selectedTasks, isDeleteModalOpen,
                   tasksToDelete, currentSort, originalOrder, received, getsInFlight,
                   pendingDeletes, runs, dashVars>>

\* ----------------------------------------------------------------- Dashboard
\* A text field's value is the sequence of its characters.
Whitespace == {" ", "\t", "\n"}

\* String.prototype.trim
RECURSIVE TrimStart(_)
TrimStart(str) ==
    IF str # <<>> /\ Head(str) \in Whitespace THEN TrimStart(Tail(str)) ELSE str

RECURSIVE TrimEnd(_)
TrimEnd(str) ==
    IF str # <<>> /\ str[Len(str)] \in Whitespace
    THEN TrimEnd(SubSeq(str, 1, Len(str) - 1))
    ELSE str

Trim(str) == TrimEnd(TrimStart(str))

\* What the user types or picks in the form.
Titles == {<<>>, <<" ">>, <<"a">>, <<" ", "a", " ">>}
Texts == {<<>>, <<" ", "x">>}
Dates == {<<>>, <<"2", "0", "2", "4", "-", "0", "3", "-", "0", "1">>}
Priorities == {"", "High"}
Statuses == {"Not Started", "Completed"}

ListIdle ==
    /\ mounted = FALSE
    /\ tasks = <<>>
    /\ viewMode = "list"
    /\ selectedTasks = <<>>
    /\ isDeleteModalOpen = FALSE
    /\ tasksToDelete = <<>>
    /\ toast = NoToast
    /\ timers = <<>>
    /\ toastAge = 0
    /\ currentSort = NoSort
    /\ originalOrder = <<>>
    /\ received = <<>>
    /\ getsInFlight = 0
    /\ pendingDeletes = <<>>
    /\ runs = <<>>

DashInit ==
    /\ server = {}
    /\ ListIdle
    /\ DashIdle
    /\ last = Last("init", 0, <<>>, <<>>, NoRun)

\* The mount effect: fetchTasks() (and the clock, which no handler reads).
DashMount ==
    /\ ~dMounted
    /\ dMounted' = TRUE
    /\ dGets' = dGets + 1
    /\ last' = Last("mount", 0, <<GetTasks>>, <<>>, NoRun)
    /\ UNCHANGED <<server, listVars, formVars, dTasks, dToast, dTimers, dToastAge, postsInFlight>>

\* Dashboard's fetchTasks after response.ok.
DashFetchTasksOk ==
    /\ dGets > 0
    /\ dGets' = dGets - 1
    /\ dTasks' \in ApiOrders(server)
    /\ last' = Last("fetchTasksOk", 0, <<>>, <<>>, NoRun)
    /\ UNCHANGED <<server, listVars, formVars, dMounted, dToast, dTimers, dToastAge, postsInFlight>>

\* Dashboard's fetchTasks after a non-ok status or a transport error: console.error only.
DashFetchTasksFail ==
    /\ dGets > 0
    /\ dGets' = dGets - 1
    /\ last' = Last("fetchTasksFail", 0, <<>>, <<>>, NoRun)
    /\ UNCHANGED <<server, listVars, formVars, dMounted, dTasks, dToast, dTimers, dToastAge, postsInFlight>>

\* The onChange handlers of the six inputs.
SetTaskTitle(v) ==
    /\ dMounted
    /\ taskTitle' = v
    /\ last' = Last("onChange", 0, <<>>, <<>>, NoRun)
    /\ UNCHANGED <<server, listVars, taskDescription, dueDate, priority, status, tags,
                   dMounted, dTasks, dToast, dTimers, dToastAge, dGets, postsInFlight>>

SetTaskDescription(v) ==
    /\ dMounted
    /\ taskDescription' = v
    /\ last' = Last("onChange", 0, <<>>, <<>>, NoRun)
    /\ UNCHANGED <<server, listVars, taskTitle, dueDate, priority, status, tags,
                   dMounted, dTasks, dToast, dTimers, dToastAge, dGets, postsInFlight>>

SetDueDate(v) ==
    /\ dMounted
    /\ dueDate' = v
    /\ last' = Last("onChange", 0, <<>>, <<>>, NoRun)
    /\ UNCHANGED <<server, listVars, taskTitle, taskDescription, priority, status, tags,
                   dMounted, dTasks, dToast, dTimers, dToastAge, dGets, postsInFlight>>

SetPriority(v) ==
    /\ dMounted
    /\ priority' = v
    /\ last' = Last("onChange", 0, <<>>, <<>>, NoRun)
    /\ UNCHANGED <<server, listVars, taskTitle, taskDescription, dueDate, status, tags,
                   dMounted, dTasks, dToast, dTimers, dToastAge, dGets, postsInFlight>>

SetStatus(v) ==
    /\ dMounted
    /\ status' = v
    /\ last' = Last("onChange", 0, <<>>, <<>>, NoRun)
    /\ UNCHANGED <<server, listVars, taskTitle, taskDescription, dueDate, priority, tags,
                   dMounted, dTasks, dToast, dTimers, dToastAge, dGets, postsInFlight>>

SetTags(v) ==
    /\ dMounted
    /\ tags' = v
    /\ last' = Last("onChange", 0, <<>>, <<>>, NoRun)
    /\ UNCHANGED <<server, listVars, taskTitle, taskDescription, dueDate, priority, status,
                   dMounted, dTasks, dToast, dTimers, dToastAge, dGets, postsInFlight>>

TitleRequiredToast == Toast(<<"Task title is required">>, "error")

TaskAddedToast == Toast(<<"Task added successfully!">>, "success")

\* Mutant: the title is tested without trim().
TitleIsEmpty(title) == title = <<>>

\* !taskTitle.trim()
TitleIsBlank(title) == Trim(title) = <<>>

\* The requests handleSubmit issues before its first await.
SubmitRequests(title) == IF TitleIsBlank(title) THEN <<>> ELSE <<Req("POST", 0)>>

\* handleSubmit up to its first await, or to its early return.
HandleSubmit ==
    /\ dMounted
    /\ postsInFlight + Len(SubmitRequests(taskTitle)) <= MaxPosts
    /\ Cardinality(server) + postsInFlight + Len(SubmitRequests(taskTitle)) <= MaxTasks
    /\ postsInFlight' = postsInFlight + Len(SubmitRequests(taskTitle))
    /\ LET calls == IF TitleIsBlank(taskTitle) THEN <<TitleRequiredToast>> ELSE <<>>
       IN  /\ dToast' = SetToasts(dToast, calls)
           /\ dTimers' = ToastTimers(dTimers, dToast, calls)
           /\ dToastAge' = AgeAfter(dToastAge, calls)
           /\ last' = Last("handleSubmit", 0, SubmitRequests(taskTitle), calls, NoRun)
    /\ UNCHANGED <<server, listVars, formVars, dMounted, dTasks, dGets>>

\* Mutant: resetForm without its setStatus call.
ResetFormKeepsStatus == <<<<>>, <<>>, <<>>, "", status, <<>>>>

\* resetForm: the six fields after it.
ResetForm == <<<<>>, <<>>, <<>>, "", "Not Started", <<>>>>

\* The requests handleSubmit issues after response.ok.
SubmitRefetch == <<GetTasks>>

\* handleSubmit after response.ok: the API has stored the task under a new id.
HandleSubmitOk ==
    /\ postsInFlight > 0
    /\ dGets + Len(SubmitRefetch) <= MaxGets
    /\ postsInFlight' = postsInFlight - 1
    /\ \E id \in TaskIds \ server : server' = server \cup {id}
    /\ taskTitle' = ResetForm[1]
    /\ taskDescription' = ResetForm[2]
    /\ dueDate' = ResetForm[3]
    /\ priority' = ResetForm[4]
    /\ status' = ResetForm[5]
    /\ tags' = ResetForm[6]
    /\ dToast' = SetToasts(dToast, <<TaskAddedToast>>)
    /\ dTimers' = ToastTimers(dTimers, dToast, <<TaskAddedToast>>)
    /\ dToastAge' = AgeAfter(dToastAge, <<TaskAddedToast>>)
    /\ dGets' = dGets + Len(SubmitRefetch)
    /\ last' = Last("handleSubmitOk", 0, SubmitRefetch, <<TaskAddedToast>>, NoRun)
    /\ UNCHANGED <<listVars, dMounted, dTasks>>

\* The error toasts of handleSubmit: errorData.message || "Failed to add task"
\* after a non-ok status, "Error adding task" after a transport error or a body
\* that is not JSON.
SubmitErrorToasts ==
    {Toast(<<"message of the API">>, "error"),
     Toast(<<"Failed to add task">>, "error"),
     Toast(<<"Error adding task">>, "error")}

\* The six fields after handleSubmit's failure paths.
FormAfterFailure == formVars

HandleSubmitFail ==
    /\ postsInFlight > 0
    /\ postsInFlight' = postsInFlight - 1
    /\ taskTitle' = FormAfterFailure[1]
    /\ taskDescription' = FormAfterFailure[2]
    /\ dueDate' = FormAfterFailure[3]
    /\ priority' = FormAfterFailure[4]
    /\ status' = FormAfterFailure[5]
    /\ tags' = FormAfterFailure[6]
    /\ \E t \in SubmitErrorToasts :
        /\ dToast' = SetToasts(dToast, <<t>>)
        /\ dTimers' = ToastTimers(dTimers, dToast, <<t>>)
        /\ dToastAge' = AgeAfter(dToastAge, <<t>>)
        /\ last' = Last("handleSubmitFail", 0, <<>>, <<t>>, NoRun)
    /\ UNCHANGED <<server, listVars, dMounted, dTasks, dGets>>

\* The Dashboard's toast effect has the code of the TasksComponent's.
DashToastExpire ==
    /\ dTimers # <<>>
    /\ dToast' = NoToast
    /\ dTimers' = ToastEffect(AfterDue(dTimers), NoToast)
    /\ dToastAge' = 0
    /\ last' = Last("toastExpire", 0, <<>>, <<>>, NoRun)
    /\ UNCHANGED <<server, listVars, formVars, dMounted, dTasks, dGets, postsInFlight>>

\* ---------------------------------------------------------------------- time
\* Each component is a page of its own, and its timers run on that page's clock.
\* One second passes: no armed timer is due (a due timer runs first), every
\* armed timer has one second less left.
Tick ==
    /\ timers # <<>>
    /\ \A d \in Range(timers) : d > 0
    /\ timers' = [i \in 1..Len(timers) |-> timers[i] - 1]
    /\ toastAge' = IF toast # NoToast THEN toastAge + 1 ELSE toastAge
    /\ last' = Last("tick", 0, <<>>, <<>>, NoRun)
    /\ UNCHANGED <<server, mounted, tasks, viewMode, selectedTasks, isDeleteModalOpen,
                   tasksToDelete, toast, currentSort, originalOrder, received,
                   getsInFlight, pendingDeletes, runs, dashVars>>

DashTick ==
    /\ dTimers # <<>>
    /\ \A d \in Range(dTimers) : d > 0
    /\ dTimers' = [i \in 1..Len(dTimers) |-> dTimers[i] - 1]
    /\ dToastAge' = IF dToast # NoToast THEN dToastAge + 1 ELSE dToastAge
    /\ last' = Last("tick", 0, <<>>, <<>>, NoRun)
    /\ UNCHANGED <<server, listVars, formVars, dMounted, dTasks, dToast, dGets,
                   postsInFlight>>

\* ------------------------------------------------------------ specifications
\* The component is checked one group of handlers at a time: the user of a
\* specification clicks only the controls its next-state relation lists.

\* Sorting and view mode, with single deletes changing the collection.
SortNext ==
    \/ Mount
    \/ FetchTasksOk
    \/ FetchTasksFail
    \/ ToggleViewMode
    \/ \E option \in SortOption : HandleSortClick(option)
    \/ \E taskId \in TaskIds : HandleDeleteTask(taskId)
    \/ \E i \in 1..MaxPending, ok \in BOOLEAN : HandleDeleteTaskDone(i, ok)
    \/ ToastExpire

SortSpec == ListInit /\ [][SortNext]_vars

\* Selection and single deletes.
DeleteNext ==
    \/ Mount
    \/ FetchTasksOk
    \/ FetchTasksFail
    \/ \E taskId \in TaskIds : ToggleTaskSelection(taskId)
    \/ \E taskId \in TaskIds : HandleDeleteTask(taskId)
    \/ \E i \in 1..MaxPending, ok \in BOOLEAN : HandleDeleteTaskDone(i, ok)
    \/ ToastExpire

DeleteSpec == ListInit /\ [][DeleteNext]_vars

\* Selection and batch deletes.
BatchNext ==
    \/ Mount
    \/ FetchTasksOk
    \/ FetchTasksFail
    \/ \E taskId \in TaskIds : ToggleTaskSelection(taskId)
    \/ SelectAllTasks
    \/ CancelSelection
    \/ OpenDeleteModal
    \/ CloseDeleteModal
    \/ DeleteSelectedTasks
    \/ \E r \in 1..MaxRuns, ok \in BOOLEAN : DeleteSelectedTasksNext(r, ok)
    \/ \E r \in 1..MaxRuns, ok \in BOOLEAN : DeleteSelectedTasksDone(r, ok)

BatchSpec == ListInit /\ [][BatchNext]_vars

\* Sorting and selection, with single deletes causing re-fetches.
FetchNext ==
    \/ Mount
    \/ FetchTasksOk
    \/ FetchTasksFail
    \/ \E taskId \in TaskIds : ToggleTaskSelection(taskId)
    \/ \E option \in SortOption : HandleSortClick(option)
    \/ \E taskId \in TaskIds : HandleDeleteTask(taskId)
    \/ \E i \in 1..MaxPending, ok \in BOOLEAN : HandleDeleteTaskDone(i, ok)

FetchSpec == ListInit /\ [][FetchNext]_vars

\* The toasts of both components and their timers, with time passing.
ToastNext ==
    \/ Mount
    \/ FetchTasksOk
    \/ FetchTasksFail
    \/ \E taskId \in TaskIds : HandleDeleteTask(taskId)
    \/ \E i \in 1..MaxPending, ok \in BOOLEAN : HandleDeleteTaskDone(i, ok)
    \/ ToastExpire
    \/ DashMount
    \/ HandleSubmit
    \/ DashToastExpire
    \/ Tick
    \/ DashTick

ToastSpec == ListInit /\ [][ToastNext]_vars

\* Time passes, and the browser runs a timer that is due.
ToastFairSpec ==
    /\ ToastSpec
    /\ WF_vars(Tick) /\ WF_vars(ToastExpire)
    /\ WF_vars(DashTick) /\ WF_vars(DashToastExpire)

\* The Dashboard.
DashNext ==
    \/ DashMount
    \/ DashFetchTasksOk
    \/ DashFetchTasksFail
    \/ \E v \in Titles : SetTaskTitle(v)
    \/ \E v \in Texts : SetTaskDescription(v)
    \/ \E v \in Dates : SetDueDate(v)
    \/ \E v \in Priorities : SetPriority(v)
    \/ \E v \in Statuses : SetStatus(v)
    \/ \E v \in Texts : SetTags(v)
    \/ HandleSubmit
    \/ HandleSubmitOk
    \/ HandleSubmitFail
    \/ DashToastExpire

DashSpec == DashInit /\ [][DashNext]_vars

\* ===================================================================== claims
Gets(reqs) == Count(reqs, GetTasks)

IsPrefix(s, t) == Len(s) <= Len(t) /\ s = SubSeq(t, 1, Len(s))

BatchDone == last.op = "deleteSelectedTasksDone"

\* C1 (as stated): in every reachable state the selected ids are ids of
\* displayed tasks.
C1_SelectedAreDisplayed == Range(selectedTasks) \subseteq Range(tasks)

SuccessToast(n) == Toast(<<"Successfully deleted ", n, " task(s)">>, "success")

ErrorToast(n) == Toast(<<"Failed to delete ", n, " task(s)">>, "error")

\* The toasts the claim prescribes for a finished batch delete.
PrescribedToasts(successCount, errorCount) ==
    (IF successCount > 0 THEN {SuccessToast(successCount)} ELSE {})
    \cup (IF errorCount > 0 THEN {ErrorToast(errorCount)} ELSE {})

C3_BatchSettlesEveryIdFirst ==
    /\ \A r \in 1..Len(runs) :
          /\ runs[r].sent # <<>>
          /\ IsPrefix(runs[r].sent, runs[r].ids)
          /\ runs[r].successCount + runs[r].errorCount = Len(runs[r].sent) - 1
    /\ last.op \in {"deleteSelectedTasks", "deleteSelectedTasksNext"} =>
          /\ last.toasts = <<>>
          /\ Len(last.reqs) = 1
          /\ last.reqs[1].method = "DELETE"
    /\ BatchDone =>
          /\ \A id \in Range(last.run.ids) : Count(last.run.sent, id) = 1
          /\ Range(last.run.sent) = Range(last.run.ids)
          /\ last.run.successCount + last.run.errorCount = Len(last.run.ids)
          /\ last.toasts = BatchToasts(last.run.successCount, last.run.errorCount)
          /\ Gets(last.reqs) = 1

\* A batch delete of three ids has finished with two failures, so a failure was
\* followed by a further request.
C3_Witness ==
    /\ BatchDone
    /\ Len(last.run.ids) = 3
    /\ last.run.errorCount = 2
    /\ last.run.successCount = 1

\* C4: when a batch delete has finished, whatever its counters, it has issued
\* exactly one GET, and the selection is empty, the pending-delete list is empty
\* and the dialog is closed.
C4_BatchAlwaysRefetchesAndClears ==
    BatchDone =>
        /\ Gets(last.reqs) = 1
        /\ getsInFlight >= 1
        /\ selectedTasks = <<>>
        /\ tasksToDelete = <<>>
        /\ ~isDeleteModalOpen

\* A batch delete of several ids has finished with every request failed.
C4_Witness ==
    /\ BatchDone
    /\ last.run.successCount = 0
    /\ last.run.errorCount >= 2
    /\ getsInFlight = 1

SingleDeleteDone == last.op \in {"handleDeleteTaskOk", "handleDeleteTaskFail"}

\* C5 (as stated): a single delete issues one DELETE for its id, and once that
\* is answered, by success or by failure, emits one toast and re-fetches.
C5_SingleDeleteAlwaysRefetches ==
    /\ last.op = "handleDeleteTask" => last.reqs = <<Req("DELETE", last.arg)>>
    /\ SingleDeleteDone => Len(last.toasts) = 1 /\ last.reqs = <<GetTasks>>

\* C5 (amended): a single delete issues one DELETE for its id without a
\* confirmation step; after a success it shows the success toast and re-fetches
\* once; after a failure it shows the error toast and issues no request.
C5_SingleDeleteRefetchesOnSuccess ==
    /\ last.op = "handleDeleteTask" =>
          /\ last.reqs = <<Req("DELETE", last.arg)>>
          /\ last.toasts = <<>>
          /\ ~isDeleteModalOpen
    /\ last.op = "handleDeleteTaskOk" =>
          /\ last.reqs = <<GetTasks>>
          /\ toast = TaskDeletedToast
    /\ last.op = "handleDeleteTaskFail" =>
          /\ last.reqs = <<>>
          /\ toast = DeleteFailedToast

\* A single delete has failed: the error toast is up and no GET is in flight.
C5_Witness ==
    /\ last.op = "handleDeleteTaskFail"
    /\ toast = DeleteFailedToast
    /\ getsInFlight = 0
    /\ last.arg \in Range(tasks)

SortClicked == last.op = "handleSortClick"

\* C6: a click on the chip of the active sort key (the second of two clicks on
\* the same key) sets the active key to none and the displayed order to the
\* order of the last successful fetch.
C6_SecondToggleRestoresFetchedOrder ==
    [][(last'.op = "handleSortClick" /\ last'.arg = currentSort) =>
          /\ currentSort' = NoSort
          /\ originalOrder' = originalOrder
          /\ tasks' = originalOrder
          /\ received # <<>> => tasks' = received[1]]_vars

\* The priority sort has just been toggled off over a fetched collection of
\* three tasks whose fetched order is not the priority order.
C6_Witness ==
    /\ SortClicked
    /\ last.arg = "priority"
    /\ currentSort = NoSort
    /\ received = <<tasks>>
    /\ Len(tasks) = 3
    /\ SortTasks("priority", tasks) # tasks

IsPermutation(s, t) ==
    /\ Len(s) = Len(t)
    /\ \A x \in Range(s) \cup Range(t) : Count(s, x) = Count(t, x)

\* C7: once mounted, the displayed list is a permutation of the original-order
\* copy; and a sort click or a view-mode toggle keeps the displayed ids and the
\* original-order copy, and issues no request.
C7_SortingKeepsTheTasks ==
    /\ [](mounted => IsPermutation(tasks, originalOrder))
    /\ [][last'.op \in {"handleSortClick", "toggleViewMode"} =>
            /\ IsPermutation(tasks', tasks)
            /\ last'.reqs = <<>>
            /\ UNCHANGED <<server, originalOrder, getsInFlight, pendingDeletes, runs>>]_vars

\* The last-modified sort has just been switched on, from another sort, over
\* three fetched tasks: it has reordered them, and two tasks modified on the
\* same day stand in the order the earlier sort gave them.
C7_Witness ==
    /\ SortClicked
    /\ currentSort = "updatedAt"
    /\ Len(originalOrder) = 3
    /\ tasks # originalOrder
    /\ tasks # SortTasks("updatedAt", originalOrder)

HasDueDate(id) == Task(id).dueDate # NullDate

\* C8: while the due-date sort is active, of two displayed tasks with different
\* due dates the one with the later date comes first, and no task without a
\* due date comes before a task with one.
C8_DueDateSortLatestFirstUndatedLast ==
    currentSort = "dueDate" =>
        \A i, j \in 1..Len(tasks) :
            i < j =>
                /\ HasDueDate(tasks[j]) => HasDueDate(tasks[i])
                /\ (HasDueDate(tasks[i]) /\ HasDueDate(tasks[j])) =>
                      GetTime(Task(tasks[i]).dueDate) >= GetTime(Task(tasks[j]).dueDate)

\* The due-date sort is active over an undated task fetched first and two
\* tasks with different dates, the earlier one fetched before the later one.
C8_Witness ==
    /\ currentSort = "dueDate"
    /\ originalOrder = <<1, 3, 2>>
    /\ tasks = <<2, 3, 1>>

OnlyWhitespace(str) == \A i \in 1..Len(str) : str[i] \in Whitespace

\* C9: a submit of a title that is empty or holds only whitespace shows the
\* error toast "Task title is required", issues no request and changes no
\* form field.
C9_BlankTitleIsRejectedLocally ==
    [][(last'.op = "handleSubmit" /\ OnlyWhitespace(taskTitle)) =>
          /\ dToast' = TitleRequiredToast
          /\ last'.reqs = <<>>
          /\ UNCHANGED <<formVars, server, postsInFlight, dGets, dTasks>>]_vars

\* A whitespace-only title has just been submitted with other fields filled in:
\* the error toast is up, no request is in flight, the fields are as typed.
C9_Witness ==
    /\ last.op = "handleSubmit"
    /\ taskTitle = <<" ">>
    /\ taskDescription # <<>>
    /\ status # "Not Started"
    /\ dToast = TitleRequiredToast
    /\ postsInFlight = 0
    /\ dGets = 0

FormDefaults == <<<<>>, <<>>, <<>>, "", "Not Started", <<>>>>

\* C10: a submit of a title with a character that is not whitespace issues one
\* POST; when it is answered by success the six fields are set to their
\* defaults, the success toast is shown and one GET is issued; when it is
\* answered by failure an error toast is shown, no field changes and no request
\* is issued.
C10_SubmitResetsOnlyOnSuccess ==
    [][/\ (last'.op = "handleSubmit" /\ ~OnlyWhitespace(taskTitle)) =>
            /\ last'.reqs = <<Req("POST", 0)>>
            /\ postsInFlight' = postsInFlight + 1
            /\ UNCHANGED <<formVars, dToast, dGets>>
       /\ last'.op = "handleSubmitOk" =>
            /\ formVars' = FormDefaults
            /\ dToast' = TaskAddedToast
            /\ Gets(last'.reqs) = 1
            /\ dGets' = dGets + 1
       /\ last'.op = "handleSubmitFail" =>
            /\ dToast'.type = "error"
            /\ last'.reqs = <<>>
            /\ UNCHANGED <<formVars, dGets, server>>]_vars

\* A creation request has just failed: the error toast is up, the fields are
\* as submitted, away from their defaults, and no GET is in flight.
C10_Witness ==
    /\ last.op = "handleSubmitFail"
    /\ dToast.type = "error"
    /\ taskTitle = <<" ", "a", " ">>
    /\ taskDescription # <<>>
    /\ dueDate # <<>>
    /\ priority # ""
    /\ status # "Not Started"
    /\ tags # <<>>
    /\ dGets = 0

\* C11: when fetchTasks of the TasksComponent fails, its error toast is emitted
\* and shown, and the displayed tasks, the original order, the sort key and the
\* selection stay as the failure found them.
C11_FailedFetchLeavesStateAlone ==
    [][last'.op = "fetchTasksFail" =>
          /\ last'.toasts = <<toast'>>
          /\ toast'.type = "error"
          /\ UNCHANGED <<tasks, originalOrder, currentSort, selectedTasks>>]_vars

\* A re-fetch has just failed over a sorted list with a selection: the error
\* toast is up, the list is still the sorted one, not the fetched order.
C11_Witness ==
    /\ last.op = "fetchTasksFail"
    /\ toast = FetchFailedToast
    /\ currentSort = "title"
    /\ selectedTasks # <<>>
    /\ originalOrder # <<>>
    /\ tasks # originalOrder

\* An operation has just failed: a GET, a DELETE or a POST answered by a
\* transport error or a non-ok status, a submit rejected for its blank title, or
\* a batch with a failed DELETE.
OperationFailed ==
    \/ last.op \in {"fetchTasksFail", "handleDeleteTaskFail", "handleSubmitFail"}
    \/ last.op = "handleSubmit" /\ last.reqs = <<>>
    \/ last.op = "deleteSelectedTasksDone" /\ last.run.errorCount > 0

\* C12: in both components, the handler of every failed operation (fetch,
\* create, delete; transport error, non-ok status, blank title) emits an error
\* toast.
C12_EveryFailureEmitsAnErrorToast ==
    OperationFailed => \E i \in 1..Len(last.toasts) : last.toasts[i].type = "error"

\* The timers that go with a toast slot: none while it is empty, one while it
\* holds a toast, due when the toast is ToastDelay seconds old.
TimersInStep(t, armed, age) ==
    IF t = NoToast THEN armed = <<>> ELSE armed = <<ToastDelay - age>>

\* C13: in both components an emitted toast replaces the displayed one, the
\* timer of the replaced toast is cancelled and one new timer of 3 seconds is
\* armed; a displayed toast is cleared only when it is 3 seconds old; and a
\* toast that has been up is later cleared or replaced by a newer one.
C13_ToastClearedByItsOwnTimer ==
    /\ [](TimersInStep(toast, timers, toastAge) /\ TimersInStep(dToast, dTimers, dToastAge))
    /\ [][/\ (last'.toasts # <<>> /\ last'.op # "handleSubmit") =>
                /\ toast' = last'.toasts[Len(last'.toasts)]
                /\ timers' = <<ToastDelay>>
                /\ toastAge' = 0
          /\ (last'.toasts # <<>> /\ last'.op = "handleSubmit") =>
                /\ dToast' = last'.toasts[Len(last'.toasts)]
                /\ dTimers' = <<ToastDelay>>
                /\ dToastAge' = 0
          /\ (toast # NoToast /\ toast' = NoToast) =>
                toastAge + Due(timers) = ToastDelay
          /\ (dToast # NoToast /\ dToast' = NoToast) =>
                dToastAge + Due(dTimers) = ToastDelay]_vars
    /\ (toast # NoToast /\ toastAge > 0) ~> (toast = NoToast \/ toastAge = 0)
    /\ (dToast # NoToast /\ dToastAge > 0) ~> (dToast = NoToast \/ dToastAge = 0)

\* After a delete that succeeded, the toast of a failed fetch has been up for
\* two seconds and its timer has one second left; the Dashboard's blank-title
\* toast is one second old.
C13_Witness ==
    /\ toast = FetchFailedToast
    /\ toastAge = 2
    /\ timers = <<1>>
    /\ last.op = "tick"
    /\ server # TaskIds
    /\ dToast = TitleRequiredToast
    /\ dToastAge = 1

====
